---------------------------- MODULE Spec2Model ----------------------------
(***************************************************************************)
(* Face tracking and line-crossing counter of src/script.js.               *)
(*                                                                         *)
(* The state is the module-level state of the script: the detector handle, *)
(* the canvas width, the video time stamps, the map trackedFaceStates, the *)
(* id allocator nextTrackingId and the counters enterCount and exitCount.  *)
(* detectFaces is one atomic action (JavaScript runs a callback to         *)
(* completion).                                                            *)
(*                                                                         *)
(* Coordinates.  getFlippedBoxCenter adds width / 2, so a center may be a  *)
(* half-integer.  Every horizontal coordinate of the model is kept in      *)
(* half-pixels (twice the JavaScript number), which is exact for integer   *)
(* box geometry; the proximity threshold and the center line are scaled    *)
(* the same way where they are compared.                                   *)
(***************************************************************************)
EXTENDS Integers, Sequences, FiniteSets, TLC

\* ------------------------------------------------------------- constants
PROXIMITY_THRESHOLD == 100

MAX_MISS_FRAMES == 5

\* minDistance = Infinity (line 176): a sentinel no distance equals.
Infinity == -1

\* ---------------------------------------------------------------- bounds
\* Most ids ever handed out by nextTrackingId++ in one run of the model.
MaxIds == 2

\* Most detections the detector returns for one video frame.
MaxDetections == 2

\* -------------------------------------------------------------- inputs
\* videoWidth of the stream, copied to canvasElement.width.
VideoWidths == {640}

\* Bounding boxes the detector may return (originX, width in pixels).  With
\* width 640 the line is at 320 and their flipped centers are 230 and 310
\* (left) and 330 (right): 310 and 330 are the line -10 and +10, 230 and 330
\* are exactly PROXIMITY_THRESHOLD apart, 230 and 310 are 80 apart.
Boxes ==
    { [originX |-> 390, width |-> 40],
      [originX |-> 320, width |-> 20],
      [originX |-> 280, width |-> 60] }

\* All detection lists detectForVideo may return.
DetectionLists ==
    UNION { [1..n -> [boundingBox : Boxes]] : n \in 0..MaxDetections }

VARIABLES
    faceDetector,       \* FALSE = null, TRUE = created
    canvasWidth,        \* canvasElement.width (0 before loadedmetadata)
    looping,            \* detectFaces is scheduled by requestAnimationFrame
    currentTime,        \* webcamElement.currentTime (a frame stamp)
    lastVideoTime,
    enterCount,
    exitCount,
    trackedFaceStates,  \* the Map, as the sequence of its values in
                        \* insertion order (each value carries its key, id)
    nextTrackingId,
    last,               \* observer: what the most recent detectFaces call
                        \* started from, was given and matched
    osc,                \* observer: progress of a lone track through the
                        \* frames line-10, line+10, line-10
    missRun,            \* observer: for each id handed out, the number of
                        \* consecutive calls since it was last matched or
                        \* created (counted up to MAX_MISS_FRAMES + 1)
    dropped,            \* observer: the ids that left the map
    bornSide,           \* observer: for each live id, the side of the
                        \* detection the track was created for
    everEntered,        \* observer: the ids whose isEnterCounted was seen set
    everExited,         \* observer: the ids whose isExitCounted was seen set
    emptyRun            \* observer: the current run of consecutive calls
                        \* with an empty detection list (length counted up
                        \* to MAX_MISS_FRAMES + 1) and the counters and
                        \* nextTrackingId it started from

vars == << faceDetector, canvasWidth, looping, currentTime, lastVideoTime,
           enterCount, exitCount, trackedFaceStates, nextTrackingId, last, osc,
           missRun, dropped, bornSide, everEntered, everExited, emptyRun >>

\* ------------------------------------------------------------- helpers
Abs(x) == IF x < 0 THEN -x ELSE x

\* Variant of Splice that leaves the matched detection in the pool.
Splice_Keep(s, i) == s

\* Array.prototype.splice(i, 1): the sequence without its i-th element.
Splice(s, i) == [k \in 1..(Len(s) - 1) |-> IF k < i THEN s[k] ELSE s[k + 1]]

\* Lines 58-62, in half-pixels.
getFlippedBoxCenter(boundingBox, width) ==
    LET flippedX == width - boundingBox.originX - boundingBox.width
    IN  2 * flippedX + boundingBox.width

\* Line 145: canvasElement.width * CENTER_LINE_X_THRESHOLD (0.5), in
\* half-pixels.
centerLineX(width) == width

\* Lines 206 and 248.
SideOf(center, width) ==
    IF center < centerLineX(width) THEN "left" ELSE "right"

\* Variant of IsBetterMatch that keeps the last candidate within the
\* threshold, not the nearest.
IsBetterMatch_Last(distance, minDistance) ==
    distance < 2 * PROXIMITY_THRESHOLD

\* Variant of IsBetterMatch whose threshold test is not strict.
IsBetterMatch_Inclusive(distance, minDistance) ==
    /\ distance <= 2 * PROXIMITY_THRESHOLD
    /\ (minDistance = Infinity \/ distance < minDistance)

\* Line 184: the test that makes detection i the best match so far.
IsBetterMatch(distance, minDistance) ==
    /\ distance < 2 * PROXIMITY_THRESHOLD
    /\ (minDistance = Infinity \/ distance < minDistance)

\* Lines 179-189: the scan of unmatchedDetections for one old track.
\* pool holds the still-unmatched detections as positions in newDetections
\* (the array holds object references).  Result: bestMatchIndex (0 when
\* matchFound is false).
RECURSIVE FindBestMatch(_, _, _, _, _, _, _)
FindBestMatch(oldState, pool, newDetections, width, i, bestMatchIndex, minDistance) ==
    IF i > Len(pool) THEN bestMatchIndex
    ELSE
        LET detection == newDetections[pool[i]]
            currentCenterFlippedX == getFlippedBoxCenter(detection.boundingBox, width)
            distance == Abs(currentCenterFlippedX - oldState.prevCenterFlippedX)
        IN  IF IsBetterMatch(distance, minDistance)
            THEN FindBestMatch(oldState, pool, newDetections, width, i + 1, i, distance)
            ELSE FindBestMatch(oldState, pool, newDetections, width, i + 1,
                               bestMatchIndex, minDistance)

\* Variant of IsEnterCrossing that forgets the one-shot flag.
IsEnterCrossing_Recount(lastSide, currentSide, isEnterCounted) ==
    lastSide = "left" /\ currentSide = "right"

\* Line 210: the crossing is counted as an entry.
IsEnterCrossing(lastSide, currentSide, isEnterCounted) ==
    lastSide = "left" /\ currentSide = "right" /\ ~isEnterCounted

\* Variant of IsExitCrossing with the direction of the entry test.
IsExitCrossing_Swapped(lastSide, currentSide, isExitCounted) ==
    lastSide = "left" /\ currentSide = "right" /\ ~isExitCounted

\* Line 214: the crossing is counted as an exit.
IsExitCrossing(lastSide, currentSide, isExitCounted) ==
    lastSide = "right" /\ currentSide = "left" /\ ~isExitCounted

\* Variant of NextLastSide that never stores the new side.
NextLastSide_Stale(lastSide, currentSide) == lastSide

\* Lines 208 and 221: lastSide after the counting checks.
NextLastSide(lastSide, currentSide) ==
    IF currentSide # lastSide THEN currentSide ELSE lastSide

\* Variant of Increment that counts a crossing twice.
Increment_Twice(count) == count + 2

\* Variant of Increment that counts down.
Increment_Down(count) == count - 1

\* Lines 212 and 216: enterCount++ and exitCount++.
Increment(count) == count + 1

\* Variant of MatchedUpdate that resets the miss counter but stores neither
\* the new position nor the new box, and so sees no crossing.
MatchedUpdate_StalePosition(oldState, newBoundingBox, width) ==
    [ state |-> [oldState EXCEPT !.missedFrames = 0],
      isEnter |-> FALSE,
      isExit  |-> FALSE ]

\* Lines 198-222: the next state of a matched track and which counter, if
\* any, its crossing increments.
MatchedUpdate(oldState, newBoundingBox, width) ==
    LET currentCenterFlippedX == getFlippedBoxCenter(newBoundingBox, width)
        currentState == [oldState EXCEPT !.prevCenterFlippedX = currentCenterFlippedX,
                                         !.missedFrames = 0,
                                         !.boundingBox = newBoundingBox]
        currentSide == SideOf(currentCenterFlippedX, width)
        crossing == currentSide # currentState.lastSide
        isEnter == /\ crossing
                   /\ IsEnterCrossing(currentState.lastSide, currentSide,
                                      currentState.isEnterCounted)
        isExit  == /\ crossing
                   /\ ~isEnter
                   /\ IsExitCrossing(currentState.lastSide, currentSide,
                                     currentState.isExitCounted)
    IN  [ state |-> [currentState EXCEPT
                        !.isEnterCounted = IF isEnter THEN TRUE ELSE @,
                        !.isExitCounted  = IF isExit THEN TRUE ELSE @,
                        !.lastSide = NextLastSide(@, currentSide)],
          isEnter |-> isEnter,
          isExit  |-> isExit ]

\* Variant of KeepsTrack that drops the track one miss early.
KeepsTrack_Strict(newMissedFrames) == newMissedFrames < MAX_MISS_FRAMES

\* Variant of KeepsTrack that tolerates one miss more.
KeepsTrack_Lenient(newMissedFrames) == newMissedFrames <= MAX_MISS_FRAMES + 1

\* Line 230: an unmatched track is kept.
KeepsTrack(newMissedFrames) == newMissedFrames <= MAX_MISS_FRAMES

\* Variant of MissedUpdate that keeps the track without counting the miss.
MissedUpdate_Uncounted(oldState) ==
    IF KeepsTrack(oldState.missedFrames + 1) THEN << oldState >> ELSE << >>

\* Lines 227-239: the tracks an unmatched track leaves in the next map.
MissedUpdate(oldState) ==
    LET newMissedFrames == oldState.missedFrames + 1
    IN  IF KeepsTrack(newMissedFrames)
        THEN << [oldState EXCEPT !.missedFrames = newMissedFrames] >>
        ELSE << >>

\* Lines 173-240: the loop over the old tracks, from track k on.  acc is
\* the loop's state: pool (unmatchedDetections), next
\* (NEXT_FRAME_TRACKED_FACES), the counters, and matchOf, the position in
\* newDetections each old track took (0 for none).
RECURSIVE MatchLoop(_, _, _, _, _)
MatchLoop(tracks, newDetections, width, k, acc) ==
    IF k > Len(tracks) THEN acc
    ELSE
        LET oldState == tracks[k]
            bestMatchIndex ==
                FindBestMatch(oldState, acc.pool, newDetections, width, 1, 0, Infinity)
            matchFound == bestMatchIndex # 0
        IN  IF matchFound
            THEN
                LET matchingDetection == newDetections[acc.pool[bestMatchIndex]]
                    upd == MatchedUpdate(oldState, matchingDetection.boundingBox, width)
                IN  MatchLoop(tracks, newDetections, width, k + 1,
                        [ pool    |-> Splice(acc.pool, bestMatchIndex),
                          next    |-> Append(acc.next, upd.state),
                          enter   |-> IF upd.isEnter THEN Increment(acc.enter)
                                                      ELSE acc.enter,
                          exit    |-> IF upd.isExit THEN Increment(acc.exit)
                                                     ELSE acc.exit,
                          matchOf |-> Append(acc.matchOf, acc.pool[bestMatchIndex]) ])
            ELSE
                MatchLoop(tracks, newDetections, width, k + 1,
                    [ acc EXCEPT !.next = @ \o MissedUpdate(oldState),
                                 !.matchOf = Append(@, 0) ])

\* Variant of NewTrack that treats a face first seen right of the line as
\* having entered.
NewTrack_Entered(foundId, boundingBox, width) ==
    LET currentCenterFlippedX == getFlippedBoxCenter(boundingBox, width)
    IN  [ id |-> foundId,
          prevCenterFlippedX |-> currentCenterFlippedX,
          lastSide |-> SideOf(currentCenterFlippedX, width),
          isEnterCounted |-> SideOf(currentCenterFlippedX, width) = "right",
          isExitCounted |-> FALSE,
          missedFrames |-> 0,
          boundingBox |-> boundingBox ]

\* Lines 247-258: the track made for an unmatched detection.
NewTrack(foundId, boundingBox, width) ==
    LET currentCenterFlippedX == getFlippedBoxCenter(boundingBox, width)
    IN  [ id |-> foundId,
          prevCenterFlippedX |-> currentCenterFlippedX,
          lastSide |-> SideOf(currentCenterFlippedX, width),
          isEnterCounted |-> FALSE,
          isExitCounted |-> FALSE,
          missedFrames |-> 0,
          boundingBox |-> boundingBox ]

\* Variant of FoundId that numbers the new tracks of every call from 0.
FoundId_Restart(nextId, j) == j - 1

\* Line 247: foundId of the j-th unmatched detection.
FoundId(nextId, j) == nextId + (j - 1)

\* Variant of SpawnTracks that makes a track only for the first detection
\* left in the pool.
SpawnTracks_First(pool, newDetections, width, nextId) ==
    [ j \in 1..(IF Len(pool) > 0 THEN 1 ELSE 0) |->
        NewTrack(FoundId(nextId, j), newDetections[pool[j]].boundingBox, width) ]

\* Lines 243-261: one new track per detection left in the pool.
SpawnTracks(pool, newDetections, width, nextId) ==
    [ j \in 1..Len(pool) |->
        NewTrack(FoundId(nextId, j), newDetections[pool[j]].boundingBox, width) ]

\* Variant of Entries that walks the map from its newest entry back.
Entries_Reversed(tracks) ==
    [ k \in 1..Len(tracks) |-> tracks[Len(tracks) + 1 - k] ]

\* Line 173: trackedFaceStates.entries(), the map's entries in insertion
\* order.
Entries(tracks) == tracks

\* Lines 146-264: the tracking pass of one tick.
TrackingPass(tracks, newDetections, width, nextId, enter, exit) ==
    LET unmatchedDetections == [i \in 1..Len(newDetections) |-> i]
        acc == MatchLoop(Entries(tracks), newDetections, width, 1,
                   [ pool |-> unmatchedDetections, next |-> << >>,
                     enter |-> enter, exit |-> exit, matchOf |-> << >> ])
    IN  [ tracks  |-> acc.next \o SpawnTracks(acc.pool, newDetections, width, nextId),
          nextId  |-> nextId + Len(acc.pool),
          enter   |-> acc.enter,
          exit    |-> acc.exit,
          matchOf |-> acc.matchOf ]

\* Lines 267-281: the number shown as "detected", the tracks drawn with
\* missedFrames === 0.
RECURSIVE ActualDetectionsCount(_)
ActualDetectionsCount(tracks) ==
    IF tracks = << >> THEN 0
    ELSE (IF Head(tracks).missedFrames = 0 THEN 1 ELSE 0)
             + ActualDetectionsCount(Tail(tracks))

\* Variant of HasNewFrame that takes every tick for a new video frame.
HasNewFrame_Always(time, lastTime) == TRUE

\* Line 140: the video time differs from the one of the last detection.
HasNewFrame(time, lastTime) == time # lastTime

\* ---------------------------------------------------------------- state
NoCall ==
    [ called |-> FALSE, fresh |-> FALSE, tracks |-> << >>, newDetections |-> << >>,
      matchOf |-> << >>,
      enterCount |-> 0, exitCount |-> 0, nextTrackingId |-> 0,
      currentTime |-> 0, lastVideoTime |-> 0 ]

NoOsc == [ phase |-> 0, id |-> 0, enterCount |-> 0, exitCount |-> 0 ]

\* The center (in half-pixels) the oscillation of a lone track shows in its
\* phase-th frame: 10 pixels left of the line, then right, then left.
OscCenter(width, phase) ==
    IF phase = 2 THEN centerLineX(width) + 20 ELSE centerLineX(width) - 20

\* osc after a tick that started from tracks and was given newDetections.
\* A run starts when the only track is on the left with neither flag set
\* and the only detection, 10 pixels left of the line, is matched to it;
\* it advances while the next tick again carries one detection, at the
\* next center of the pattern, matched to that track.
OscAfter(o, tracks, newDetections, matchOf, width, enter, exit) ==
    LET lone == Len(tracks) = 1 /\ Len(newDetections) = 1 /\ matchOf = << 1 >>
        center == getFlippedBoxCenter(newDetections[1].boundingBox, width)
    IN  IF /\ lone
           /\ o.phase \in {1, 2}
           /\ tracks[1].id = o.id
           /\ center = OscCenter(width, o.phase + 1)
        THEN [o EXCEPT !.phase = @ + 1]
        ELSE IF /\ lone
                /\ tracks[1].lastSide = "left"
                /\ ~tracks[1].isEnterCounted
                /\ ~tracks[1].isExitCounted
                /\ center = OscCenter(width, 1)
        THEN [ phase |-> 1, id |-> tracks[1].id,
               enterCount |-> enter, exitCount |-> exit ]
        ELSE NoOsc

\* missRun after a call that started from tracks with next id nextId, matched
\* as matchOf says and handed out the ids below newNextId.
MissRunAfter(run, tracks, matchOf, nextId, newNextId) ==
    LET matchedIds == { tracks[k].id : k \in { p \in 1..Len(tracks) : matchOf[p] # 0 } }
    IN  [ id \in 0..(newNextId - 1) |->
            IF id >= nextId \/ id \in matchedIds THEN 0
            ELSE IF run[id] > MAX_MISS_FRAMES THEN run[id]
            ELSE run[id] + 1 ]

\* bornSide after a call that started with next id nextId and left
\* newTracks: an old track keeps its entry, and a track created by the call
\* gets the side on which the box of its detection (line 257) lies.
BornSideAfter(born, width, nextId, newTracks) ==
    [ id \in { newTracks[k].id : k \in 1..Len(newTracks) } |->
        IF id < nextId THEN born[id]
        ELSE LET k == CHOOSE p \in 1..Len(newTracks) : newTracks[p].id = id
                 center == getFlippedBoxCenter(newTracks[k].boundingBox, width)
             IN  IF center < centerLineX(width) THEN "left" ELSE "right" ]

NoRun == [ n |-> 0, enterCount |-> 0, exitCount |-> 0, nextTrackingId |-> 0 ]

\* emptyRun after a call that was given newDetections and started from the
\* counters enter, exit and the next id nextId.
EmptyRunAfter(run, newDetections, enter, exit, nextId) ==
    IF newDetections # << >> THEN NoRun
    ELSE IF run.n = 0
    THEN [ n |-> 1, enterCount |-> enter, exitCount |-> exit,
           nextTrackingId |-> nextId ]
    ELSE [ run EXCEPT !.n = IF @ > MAX_MISS_FRAMES THEN @ ELSE @ + 1 ]

Init ==
    /\ faceDetector = FALSE
    /\ canvasWidth = 0
    /\ looping = FALSE
    /\ currentTime = 0
    /\ lastVideoTime = -1
    /\ enterCount = 0
    /\ exitCount = 0
    /\ trackedFaceStates = << >>
    /\ nextTrackingId = 0
    /\ last = NoCall
    /\ osc = NoOsc
    /\ missRun = << >>
    /\ dropped = {}
    /\ bornSide = << >>
    /\ everEntered = {}
    /\ everExited = {}
    /\ emptyRun = NoRun

\* Lines 66-86: the model is loaded and the handle stored.
CreateFaceDetector ==
    /\ ~faceDetector
    /\ faceDetector' = TRUE
    /\ UNCHANGED << canvasWidth, looping, currentTime, lastVideoTime, enterCount,
                    exitCount, trackedFaceStates, nextTrackingId, last, osc,
                    missRun, dropped, bornSide, everEntered, everExited,
                    emptyRun >>

\* Lines 106-123: startWebcam runs after the detector exists (line 86); its
\* loadedmetadata handler sizes the canvas and starts the loop.
OnLoadedMetadata ==
    /\ faceDetector
    /\ ~looping
    /\ \E videoWidth \in VideoWidths : canvasWidth' = videoWidth
    /\ looping' = TRUE
    /\ UNCHANGED << faceDetector, currentTime, lastVideoTime, enterCount,
                    exitCount, trackedFaceStates, nextTrackingId, last, osc,
                    missRun, dropped, bornSide, everEntered, everExited,
                    emptyRun >>

\* The camera delivers a new video frame: webcamElement.currentTime takes a
\* value it did not have at the last detection.  Line 140 compares the
\* stamps only for equality, so two stamps that alternate stand for the
\* increasing media time.
VideoFrame ==
    /\ looping
    /\ currentTime = lastVideoTime
    /\ currentTime' = 1 - currentTime
    /\ UNCHANGED << faceDetector, canvasWidth, looping, lastVideoTime, enterCount,
                    exitCount, trackedFaceStates, nextTrackingId, last, osc,
                    missRun, dropped, bornSide, everEntered, everExited,
                    emptyRun >>

\* Lines 132-308: one tick of the loop.  detections is what detectForVideo
\* returns if it is called.
DetectFaces(detections) ==
    /\ looping
    /\ faceDetector /\ canvasWidth # 0                       \* line 133
    /\ LET fresh == HasNewFrame(currentTime, lastVideoTime)  \* line 140
           newDetections == IF fresh THEN detections ELSE << >>
       IN  /\ fresh \/ detections = << >>
           /\ \E r \in { TrackingPass(trackedFaceStates, newDetections, canvasWidth,
                                       nextTrackingId, enterCount, exitCount) } :
                 /\ r.nextId <= MaxIds
                 /\ lastVideoTime' = IF fresh THEN currentTime ELSE lastVideoTime
                 /\ trackedFaceStates' = r.tracks
                 /\ nextTrackingId' = r.nextId
                 /\ enterCount' = r.enter
                 /\ exitCount' = r.exit
                 /\ last' = [ called |-> TRUE, fresh |-> fresh,
                              tracks |-> trackedFaceStates,
                              newDetections |-> newDetections,
                              matchOf |-> r.matchOf,
                              enterCount |-> enterCount, exitCount |-> exitCount,
                              nextTrackingId |-> nextTrackingId,
                              currentTime |-> currentTime,
                              lastVideoTime |-> lastVideoTime ]
                 /\ osc' = OscAfter(osc, trackedFaceStates, newDetections, r.matchOf,
                                    canvasWidth, enterCount, exitCount)
                 /\ missRun' = MissRunAfter(missRun, trackedFaceStates, r.matchOf,
                                            nextTrackingId, r.nextId)
                 /\ dropped' = dropped \cup
                       ({ trackedFaceStates[k].id : k \in 1..Len(trackedFaceStates) }
                          \ { r.tracks[k].id : k \in 1..Len(r.tracks) })
                 /\ bornSide' = BornSideAfter(bornSide, canvasWidth, nextTrackingId,
                                              r.tracks)
                 /\ everEntered' = everEntered \cup
                       { r.tracks[k].id :
                           k \in { p \in 1..Len(r.tracks) : r.tracks[p].isEnterCounted } }
                 /\ everExited' = everExited \cup
                       { r.tracks[k].id :
                           k \in { p \in 1..Len(r.tracks) : r.tracks[p].isExitCounted } }
                 /\ emptyRun' = EmptyRunAfter(emptyRun, newDetections, enterCount,
                                              exitCount, nextTrackingId)
    /\ UNCHANGED << faceDetector, canvasWidth, looping, currentTime >>

Next ==
    \/ CreateFaceDetector
    \/ OnLoadedMetadata
    \/ VideoFrame
    \/ \E detections \in DetectionLists : DetectFaces(detections)

Spec == Init /\ [][Next]_vars

\* ---------------------------------------------------- reading the observer
Positions(seq) == 1..Len(seq)

Ids(tracks) == { tracks[k].id : k \in Positions(tracks) }

TrackOf(tracks, id) == tracks[CHOOSE k \in Positions(tracks) : tracks[k].id = id]

\* The old tracks of the last call that were matched, as positions.
MatchedPos == { k \in Positions(last.tracks) : last.matchOf[k] # 0 }

\* The old tracks of the last call that are still live.
SurvivingPos == { k \in Positions(last.tracks) : last.tracks[k].id \in Ids(trackedFaceStates) }

\* The old track at position k of the last call, and what it is now.
Before(k) == last.tracks[k]

After(k) == TrackOf(trackedFaceStates, last.tracks[k].id)

\* Center (half-pixels) of the i-th detection of the last call.
DetCenter(i) == getFlippedBoxCenter(last.newDetections[i].boundingBox, canvasWidth)

\* current_side of a center: Left iff center_x < frame_width * 0.5.
CurrentSide(center) == IF center < canvasWidth THEN "left" ELSE "right"

\* ------------------------------------------------------------------ C1
\* C1: across every update a track's isEnterCounted and isExitCounted never
\* go from true back to false, and each counter grows by exactly the number
\* of tracks whose flag went from false to true in that update; a track
\* whose flag is already set adds nothing, however often it crosses.
C1_FlagsOneShot ==
    last.called =>
        /\ \A k \in SurvivingPos :
              /\ Before(k).isEnterCounted => After(k).isEnterCounted
              /\ Before(k).isExitCounted => After(k).isExitCounted
        /\ enterCount - last.enterCount =
              Cardinality({ k \in SurvivingPos :
                              ~Before(k).isEnterCounted /\ After(k).isEnterCounted })
        /\ exitCount - last.exitCount =
              Cardinality({ k \in SurvivingPos :
                              ~Before(k).isExitCounted /\ After(k).isExitCounted })

\* A track already counted as entered crosses left to right again and the
\* counter stays.
C1_Witness ==
    /\ last.called
    /\ \E k \in MatchedPos :
          /\ Before(k).isEnterCounted /\ Before(k).isExitCounted
          /\ Before(k).lastSide = "left" /\ After(k).lastSide = "right"
    /\ enterCount = last.enterCount

\* ------------------------------------------------------------------ C2
\* The crossing rule of the claim, for the old track at position k.
EnterFires(k) ==
    /\ Before(k).lastSide = "left"
    /\ CurrentSide(DetCenter(last.matchOf[k])) = "right"
    /\ ~Before(k).isEnterCounted

ExitFires(k) ==
    /\ Before(k).lastSide = "right"
    /\ CurrentSide(DetCenter(last.matchOf[k])) = "left"
    /\ ~Before(k).isExitCounted

\* C2: for every matched track, entered becomes true and enterCount grows by
\* 1 iff it was on the left, is now on the right and had not entered;
\* exited and exitCount likewise for right to left; otherwise the track
\* changes neither flag nor counter; its side afterwards is current_side.
C2_CrossingRule ==
    last.called =>
        /\ \A k \in MatchedPos :
              /\ k \in SurvivingPos
              /\ After(k).isEnterCounted = (Before(k).isEnterCounted \/ EnterFires(k))
              /\ After(k).isExitCounted = (Before(k).isExitCounted \/ ExitFires(k))
              /\ After(k).lastSide = CurrentSide(DetCenter(last.matchOf[k]))
        /\ enterCount = last.enterCount + Cardinality({ k \in MatchedPos : EnterFires(k) })
        /\ exitCount = last.exitCount + Cardinality({ k \in MatchedPos : ExitFires(k) })

\* Two tracks were matched in one update; one of them, already counted as
\* entered, crosses back and is counted as exited, the other stays.
C2_Witness ==
    /\ last.called
    /\ Cardinality(MatchedPos) = 2
    /\ \E k \in MatchedPos : ExitFires(k) /\ Before(k).isEnterCounted
    /\ enterCount = last.enterCount
    /\ exitCount = last.exitCount + 1

\* ------------------------------------------------------------------ C3
\* C3: a lone track on the left with neither flag set, matched in three
\* consecutive updates at line-10, line+10, line-10, changes no counter in
\* the first, adds 1 to enterCount in the second and 1 to exitCount in the
\* third, and is the same single track throughout.
C3_Oscillation ==
    osc.phase > 0 =>
        /\ Len(trackedFaceStates) = 1
        /\ trackedFaceStates[1].id = osc.id
        /\ enterCount = osc.enterCount + (IF osc.phase >= 2 THEN 1 ELSE 0)
        /\ exitCount = osc.exitCount + (IF osc.phase >= 3 THEN 1 ELSE 0)

C3_Witness == osc.phase = 3

\* ------------------------------------------------------------------ C4
\* The tracks the last call created, and the old tracks it dropped.
NewTracks ==
    { trackedFaceStates[p] : p \in { q \in Positions(trackedFaceStates) :
                                      trackedFaceStates[q].id >= last.nextTrackingId } }

EvictedPos == Positions(last.tracks) \ SurvivingPos

\* C4: a track created in an update has both flags false, missedFrames 0 and
\* the side of its own center, and adds nothing to the counters: all of
\* the counters' growth in that update is flags set on matched old tracks.
C4_NewTrackSilent ==
    last.called =>
        /\ \A n \in NewTracks :
              /\ ~n.isEnterCounted /\ ~n.isExitCounted
              /\ n.missedFrames = 0
              /\ n.prevCenterFlippedX = getFlippedBoxCenter(n.boundingBox, canvasWidth)
              /\ n.lastSide = CurrentSide(n.prevCenterFlippedX)
        /\ enterCount - last.enterCount =
              Cardinality({ k \in MatchedPos :
                              ~Before(k).isEnterCounted /\ After(k).isEnterCounted })
        /\ exitCount - last.exitCount =
              Cardinality({ k \in MatchedPos :
                              ~Before(k).isExitCounted /\ After(k).isExitCounted })

\* A track is created right of the line in the update that evicts a track
\* that was left of it, and the counters stay.
C4_Witness ==
    /\ last.called
    /\ \E n \in NewTracks : n.lastSide = "right"
    /\ \E k \in EvictedPos : Before(k).lastSide = "left"
    /\ enterCount = last.enterCount /\ exitCount = last.exitCount

\* ------------------------------------------------------------------ C5
\* C5: a track unmatched for n consecutive updates since its last match (or
\* its creation) is in the map with missedFrames = n as long as
\* n <= MAX_MISS_FRAMES, and is not in the map once n = MAX_MISS_FRAMES + 1.
C5_Tolerance ==
    \A id \in DOMAIN missRun :
        IF missRun[id] <= MAX_MISS_FRAMES
        THEN /\ id \in Ids(trackedFaceStates)
             /\ TrackOf(trackedFaceStates, id).missedFrames = missRun[id]
        ELSE id \notin Ids(trackedFaceStates)

\* One track has just missed for the sixth time in a row and is gone while
\* another sits at exactly MAX_MISS_FRAMES misses.
C5_Witness ==
    /\ last.called
    /\ \E k \in EvictedPos : Before(k).missedFrames = MAX_MISS_FRAMES
    /\ \E id \in DOMAIN missRun : missRun[id] = MAX_MISS_FRAMES

\* ------------------------------------------------------------------ C6
\* Distance (half-pixels) from the stored center of old track k to
\* detection i, and whether it passes the proximity threshold of 100 pixels.
Dist(k, i) == Abs(DetCenter(i) - Before(k).prevCenterFlippedX)

Near(k, i) == Dist(k, i) < 2 * PROXIMITY_THRESHOLD

\* The detections no old track took, and those still unmatched when old
\* track k was processed.
Unmatched ==
    { i \in Positions(last.newDetections) :
        \A k \in Positions(last.tracks) : last.matchOf[k] # i }

PoolAt(k) ==
    { i \in Positions(last.newDetections) :
        \A j \in 1..(k - 1) : last.matchOf[j] # i }

\* Detection i was matched to no track and became a new track with the next
\* fresh id.
SpawnedFor(i) ==
    /\ i \in Unmatched
    /\ \E n \in NewTracks :
          /\ n.id = last.nextTrackingId + Cardinality({ m \in Unmatched : m < i })
          /\ n.boundingBox = last.newDetections[i].boundingBox
          /\ n.prevCenterFlippedX = DetCenter(i)

\* C6 as stated: whenever two detections are within the threshold of a track
\* at different distances, that track matches the nearer one, and the
\* farther one goes to another track or spawns a new track.
C6_AsStated ==
    last.called =>
        \A k \in Positions(last.tracks) :
            \A i, j \in Positions(last.newDetections) :
                (Near(k, i) /\ Near(k, j) /\ Dist(k, i) < Dist(k, j)) =>
                    /\ last.matchOf[k] = i
                    /\ After(k).prevCenterFlippedX = DetCenter(i)
                    /\ (j \in Unmatched => SpawnedFor(j))

\* C6 (amended): when two detections are both still unmatched as a track is
\* processed, both within the threshold of it and at different distances,
\* the track matches the nearest still-unmatched detection (the nearer of
\* the two unless a third is nearer still), takes its center, and never
\* takes the farther one, which goes to a later track or spawns a new
\* track with a fresh id.
C6_NearerWins ==
    last.called =>
        \A k \in Positions(last.tracks) :
            \A i, j \in PoolAt(k) :
                (Near(k, i) /\ Near(k, j) /\ Dist(k, i) < Dist(k, j)) =>
                    /\ last.matchOf[k] \in PoolAt(k) \ {j}
                    /\ \A m \in PoolAt(k) : Dist(k, last.matchOf[k]) <= Dist(k, m)
                    /\ After(k).prevCenterFlippedX = DetCenter(last.matchOf[k])
                    /\ After(k).boundingBox = last.newDetections[last.matchOf[k]].boundingBox
                    /\ (j \in Unmatched => SpawnedFor(j))
                    /\ (j \notin Unmatched =>
                          \E h \in Positions(last.tracks) : h > k /\ last.matchOf[h] = j)

\* The only track had two candidates, listed farther first; it took the
\* nearer and the farther became a new track.
C6_Witness ==
    /\ last.called
    /\ Len(last.tracks) = 1 /\ Len(last.newDetections) = 2
    /\ Near(1, 1) /\ Near(1, 2) /\ Dist(1, 2) < Dist(1, 1)
    /\ last.matchOf[1] = 2
    /\ SpawnedFor(1)

\* ------------------------------------------------------------------ C7
\* C7: every accepted match has a distance strictly below the threshold; a
\* detection at distance >= 100 pixels from every old track is matched to
\* none and becomes a new track with a fresh id; every old track left
\* without a match is aged (missedFrames + 1, nothing else changed) or
\* dropped, never given a detection.
C7_ProximityGate ==
    last.called =>
        /\ \A k \in MatchedPos : Near(k, last.matchOf[k])
        /\ \A i \in Positions(last.newDetections) :
              (\A k \in Positions(last.tracks) : Dist(k, i) >= 2 * PROXIMITY_THRESHOLD)
                  => SpawnedFor(i)
        /\ \A k \in SurvivingPos \ MatchedPos :
              After(k) = [Before(k) EXCEPT !.missedFrames = @ + 1]

\* A detection exactly 100 pixels from the only track became a new track and
\* the track was aged.
C7_Witness ==
    /\ last.called
    /\ Len(last.tracks) = 1 /\ Len(last.newDetections) = 1
    /\ Dist(1, 1) = 2 * PROXIMITY_THRESHOLD
    /\ SpawnedFor(1)
    /\ 1 \in SurvivingPos /\ After(1).missedFrames = Before(1).missedFrames + 1

\* ------------------------------------------------------------------ C8
\* C8: live tracks have pairwise distinct ids, all below nextTrackingId; the
\* tracks a call creates get the ids from the old nextTrackingId up, above
\* every id handed out before; an id that left the map is never live again.
C8_IdsNeverReused ==
    /\ \A p, q \in Positions(trackedFaceStates) :
          p # q => trackedFaceStates[p].id # trackedFaceStates[q].id
    /\ \A id \in Ids(trackedFaceStates) : 0 <= id /\ id < nextTrackingId
    /\ dropped \cap Ids(trackedFaceStates) = {}
    /\ \A id \in dropped : id < nextTrackingId
    /\ last.called =>
          /\ Ids(trackedFaceStates) \ Ids(last.tracks) =
                last.nextTrackingId..(nextTrackingId - 1)
          /\ \A id \in Ids(last.tracks) \cup dropped :
                \A n \in NewTracks : n.id > id
          /\ Cardinality(NewTracks) = Cardinality(Unmatched)

\* A face is detected where a dropped track used to be and gets a new id.
C8_Witness ==
    /\ last.called
    /\ \E id \in dropped : \E n \in NewTracks : n.id > id
    /\ last.tracks = << >>

\* ------------------------------------------------------------------ C9
\* C9: in one update no detection is matched to two old tracks (each old
\* track has at most the one detection recorded for it), every matched
\* track carries the box of its own detection, and the detections that
\* were matched and those that became new tracks partition the frame.
C9_OneToOne ==
    last.called =>
        /\ \A j, k \in MatchedPos : j # k => last.matchOf[j] # last.matchOf[k]
        /\ \A k \in MatchedPos :
              /\ last.matchOf[k] \in Positions(last.newDetections)
              /\ After(k).boundingBox = last.newDetections[last.matchOf[k]].boundingBox
        /\ Cardinality(MatchedPos) + Cardinality(NewTracks) = Len(last.newDetections)

\* Two tracks were both within the threshold of the same single detection;
\* the first took it and the second was aged.
C9_Witness ==
    /\ last.called
    /\ Len(last.tracks) = 2 /\ Len(last.newDetections) = 1
    /\ Near(1, 1) /\ Near(2, 1)
    /\ last.matchOf = << 1, 0 >>

\* ----------------------------------------------------------------- C10
\* C10: neither counter ever decreases; a call that matches no old track
\* leaves both unchanged; in any call each counter grows by at most the
\* number of old tracks matched.
C10_CountersMonotone ==
    /\ enterCount >= 0 /\ exitCount >= 0
    /\ last.called =>
          /\ enterCount >= last.enterCount
          /\ exitCount >= last.exitCount
          /\ MatchedPos = {} =>
                (enterCount = last.enterCount /\ exitCount = last.exitCount)
          /\ enterCount - last.enterCount <= Cardinality(MatchedPos)
          /\ exitCount - last.exitCount <= Cardinality(MatchedPos)

\* A call that only created a track right of the line, after an entry had
\* been counted, leaves the counters as they were.
C10_Witness ==
    /\ last.called
    /\ MatchedPos = {}
    /\ \E n \in NewTracks : n.lastSide = "right"
    /\ last.enterCount > 0
    /\ enterCount = last.enterCount /\ exitCount = last.exitCount

\* ----------------------------------------------------------------- C12
\* The old tracks of the last call that got no detection.
MissedPos == Positions(last.tracks) \ MatchedPos

\* C12: an old track that gets no match and whose missedFrames + 1 is within
\* the tolerance is kept with missedFrames one higher and every other field
\* (id, center, side, box, both flags) as before; the unmatched tracks add
\* nothing to the counters, whose growth is all flags set on matched tracks.
C12_MissKeepsTrack ==
    last.called =>
        /\ \A k \in MissedPos :
              Before(k).missedFrames + 1 <= MAX_MISS_FRAMES =>
                  /\ k \in SurvivingPos
                  /\ After(k).missedFrames = Before(k).missedFrames + 1
                  /\ After(k).id = Before(k).id
                  /\ After(k).prevCenterFlippedX = Before(k).prevCenterFlippedX
                  /\ After(k).lastSide = Before(k).lastSide
                  /\ After(k).boundingBox = Before(k).boundingBox
                  /\ After(k).isEnterCounted = Before(k).isEnterCounted
                  /\ After(k).isExitCounted = Before(k).isExitCounted
        /\ MissedPos = Positions(last.tracks) =>
              (enterCount = last.enterCount /\ exitCount = last.exitCount)
        /\ (enterCount - last.enterCount) + (exitCount - last.exitCount) =
              Cardinality({ k \in MatchedPos :
                  \/ Before(k).isEnterCounted # After(k).isEnterCounted
                  \/ Before(k).isExitCounted # After(k).isExitCounted })

\* A track already counted as entered misses for the fifth time and is kept
\* while the other track is matched and counted.
C12_Witness ==
    /\ last.called
    /\ \E k \in MissedPos :
          /\ Before(k).missedFrames = MAX_MISS_FRAMES - 1
          /\ Before(k).isEnterCounted
          /\ k \in SurvivingPos
    /\ \E j \in MatchedPos : EnterFires(j) \/ ExitFires(j)

\* ----------------------------------------------------------------- C13
\* C13: an old track that is matched, whatever its missedFrames was, stays in
\* the map under its id (an id handed out before the call), with
\* missedFrames 0, the center and the box of the matched detection, and
\* the flags it had (a flag that was set stays set).
C13_MatchRefreshesTrack ==
    last.called =>
        \A k \in MatchedPos :
            /\ Before(k).missedFrames \in 0..MAX_MISS_FRAMES
            /\ k \in SurvivingPos
            /\ Cardinality({ p \in Positions(trackedFaceStates) :
                               trackedFaceStates[p].id = Before(k).id }) = 1
            /\ Before(k).id < last.nextTrackingId
            /\ After(k).missedFrames = 0
            /\ After(k).prevCenterFlippedX = DetCenter(last.matchOf[k])
            /\ After(k).boundingBox = last.newDetections[last.matchOf[k]].boundingBox
            /\ Before(k).isEnterCounted => After(k).isEnterCounted
            /\ Before(k).isExitCounted => After(k).isExitCounted

\* A track ghosted for the whole tolerance, already counted as entered, is
\* matched again at another position.
C13_Witness ==
    /\ last.called
    /\ \E k \in MatchedPos :
          /\ Before(k).missedFrames = MAX_MISS_FRAMES
          /\ Before(k).isEnterCounted
          /\ After(k).isEnterCounted
          /\ After(k).prevCenterFlippedX # Before(k).prevCenterFlippedX
          /\ After(k).missedFrames = 0

\* ----------------------------------------------------------------- C14
\* Detection i is the candidate old track k would take from pool: within
\* the threshold and nearer than every other detection of the pool (the
\* earlier one of two at the same distance).
BestInPool(k, i, pool) ==
    /\ Near(k, i)
    /\ \A m \in pool \ {i} :
          \/ Dist(k, i) < Dist(k, m)
          \/ (Dist(k, i) = Dist(k, m) /\ i < m)

\* C14: the map lists its tracks in ascending id order, and the tracks are
\* matched greedily in that order: when a detection still unmatched is the
\* nearest in-threshold candidate of two old tracks, the one with the
\* smaller id takes it, however close it is to the other, and the other
\* takes a different remaining detection or is aged or dropped.
C14_AscendingGreedy ==
    /\ \A p, q \in Positions(trackedFaceStates) :
          p < q => trackedFaceStates[p].id < trackedFaceStates[q].id
    /\ last.called =>
          \A j, k \in Positions(last.tracks) :
              \A i \in PoolAt(j) :
                  (/\ Before(j).id < Before(k).id
                   /\ BestInPool(j, i, PoolAt(j))
                   /\ BestInPool(k, i, PoolAt(j))) =>
                      /\ j < k
                      /\ last.matchOf[j] = i
                      /\ After(j).prevCenterFlippedX = DetCenter(i)
                      /\ last.matchOf[k] \in (PoolAt(k) \ {i}) \cup {0}
                      /\ last.matchOf[k] = 0 =>
                            \/ k \notin SurvivingPos
                            \/ After(k).missedFrames = Before(k).missedFrames + 1

\* One detection is the nearest candidate of both tracks and closer to the
\* second; the first takes it and the second takes the other detection.
C14_Witness ==
    /\ last.called
    /\ Len(last.tracks) = 2 /\ Len(last.newDetections) = 2
    /\ \E i \in Positions(last.newDetections) :
          /\ BestInPool(1, i, PoolAt(1))
          /\ BestInPool(2, i, PoolAt(1))
          /\ Dist(2, i) < Dist(1, i)
          /\ last.matchOf[1] = i
          /\ last.matchOf[2] \notin {0, i}

\* ----------------------------------------------------------------- C15
\* C15: between calls every live track has 0 <= missedFrames <=
\* MAX_MISS_FRAMES; missedFrames is the number of consecutive calls since
\* the track was last matched or created; it is 0 exactly for the tracks
\* the most recent call matched or created.
C15_MissedFramesCounts ==
    /\ \A p \in Positions(trackedFaceStates) :
          LET t == trackedFaceStates[p]
          IN  /\ 0 <= t.missedFrames /\ t.missedFrames <= MAX_MISS_FRAMES
              /\ t.id \in DOMAIN missRun
              /\ t.missedFrames = missRun[t.id]
    /\ last.called =>
          \A p \in Positions(trackedFaceStates) :
              LET t == trackedFaceStates[p]
              IN  (t.missedFrames = 0) <=>
                      \/ t \in NewTracks
                      \/ \E k \in MatchedPos : Before(k).id = t.id

\* One track was matched by the last call while the other has gone three
\* calls without a match.
C15_Witness ==
    /\ last.called
    /\ Cardinality(MatchedPos) = 1
    /\ \E p \in Positions(trackedFaceStates) :
          /\ trackedFaceStates[p].missedFrames = 3
          /\ missRun[trackedFaceStates[p].id] = 3

\* ----------------------------------------------------------------- C16
\* Old tracks the last call left unmatched and kept within the tolerance.
AgedPos == { k \in MissedPos : Before(k).missedFrames + 1 <= MAX_MISS_FRAMES }

\* C16: after any call the number of tracks with missedFrames = 0 (the
\* "detected" count) equals the number of detections of that call, and the
\* size of the map is (matched tracks) + (aged tracks still within the
\* tolerance) + (unmatched detections).
C16_DetectionsAccounted ==
    last.called =>
        /\ ActualDetectionsCount(trackedFaceStates) = Len(last.newDetections)
        /\ Len(trackedFaceStates) =
              Cardinality(MatchedPos) + Cardinality(AgedPos) + Cardinality(Unmatched)

\* A call with two old tracks and one detection: one track is matched while
\* the other is aged and kept.
C16_Witness ==
    /\ last.called
    /\ Len(last.tracks) = 2
    /\ Cardinality(MatchedPos) = 1
    /\ Cardinality(AgedPos) = 1
    /\ Len(last.newDetections) = 1
    /\ Len(trackedFaceStates) = 2

\* ----------------------------------------------------------------- C17
\* C17: in every reachable state each live track's flags agree with its
\* side: entered and not exited implies lastSide = "right"; exited and not
\* entered implies lastSide = "left"; a track with neither flag set still
\* has the side it was created with.
C17_FlagsMatchSide ==
    \A p \in Positions(trackedFaceStates) :
        LET t == trackedFaceStates[p]
        IN  /\ t.id \in DOMAIN bornSide
            /\ (t.isEnterCounted /\ ~t.isExitCounted) => t.lastSide = "right"
            /\ (t.isExitCounted /\ ~t.isEnterCounted) => t.lastSide = "left"
            /\ (~t.isEnterCounted /\ ~t.isExitCounted) => t.lastSide = bornSide[t.id]

\* One track, created left, has entered only and stands right of the line;
\* the other, created right, has exited only and stands left.
C17_Witness ==
    /\ Len(trackedFaceStates) = 2
    /\ \E p, q \in Positions(trackedFaceStates) :
          /\ trackedFaceStates[p].isEnterCounted
          /\ ~trackedFaceStates[p].isExitCounted
          /\ trackedFaceStates[p].lastSide = "right"
          /\ bornSide[trackedFaceStates[p].id] = "left"
          /\ trackedFaceStates[q].isExitCounted
          /\ ~trackedFaceStates[q].isEnterCounted
          /\ trackedFaceStates[q].lastSide = "left"
          /\ bornSide[trackedFaceStates[q].id] = "right"

\* ----------------------------------------------------------------- C18
\* Live tracks whose isEnterCounted / isExitCounted is set.
LiveEntered == { p \in Positions(trackedFaceStates) : trackedFaceStates[p].isEnterCounted }

LiveExited == { p \in Positions(trackedFaceStates) : trackedFaceStates[p].isExitCounted }

\* C18: in every reachable state enterCount is the number of tracks ever
\* created, live or evicted, whose entered flag has been set, and exitCount
\* the number whose exited flag has been set; so the live tracks with a
\* flag set are at most the matching counter, and each counter is at most
\* nextTrackingId, the number of tracks ever created.
C18_CountersCountFlags ==
    /\ enterCount = Cardinality(everEntered)
    /\ exitCount = Cardinality(everExited)
    /\ everEntered \cup everExited \subseteq 0..(nextTrackingId - 1)
    /\ \A p \in Positions(trackedFaceStates) :
          /\ p \in LiveEntered <=> trackedFaceStates[p].id \in everEntered
          /\ p \in LiveExited <=> trackedFaceStates[p].id \in everExited
    /\ Cardinality(LiveEntered) <= enterCount
    /\ Cardinality(LiveExited) <= exitCount
    /\ enterCount <= nextTrackingId
    /\ exitCount <= nextTrackingId

\* A track that entered and exited has been evicted; the live track has no
\* flag set, so the counters exceed the live flags.
C18_Witness ==
    /\ enterCount = 1
    /\ exitCount = 1
    /\ \E id \in dropped : id \in everEntered /\ id \in everExited
    /\ Len(trackedFaceStates) = 1
    /\ LiveEntered = {}
    /\ LiveExited = {}

\* ----------------------------------------------------------------- C19
\* C19: from any reachable state, after MAX_MISS_FRAMES + 1 (6) consecutive
\* calls with an empty detection list the map is empty, and enterCount,
\* exitCount and nextTrackingId have the values they had before those calls
\* (as they have all along such a run).
C19_TracksAgeOut ==
    /\ emptyRun.n > 0 =>
          /\ enterCount = emptyRun.enterCount
          /\ exitCount = emptyRun.exitCount
          /\ nextTrackingId = emptyRun.nextTrackingId
    /\ emptyRun.n = MAX_MISS_FRAMES + 1 => trackedFaceStates = << >>

\* The sixth empty call of a run evicted two tracks that were matched or
\* created just before the run, after an enter had been counted.
C19_Witness ==
    /\ emptyRun.n = MAX_MISS_FRAMES + 1
    /\ last.called
    /\ Len(last.tracks) = 2
    /\ \A k \in Positions(last.tracks) : Before(k).missedFrames = MAX_MISS_FRAMES
    /\ trackedFaceStates = << >>
    /\ enterCount = 1
    /\ nextTrackingId = 2

\* ----------------------------------------------------------------- C20
\* The last call started with the video time equal to lastVideoTime.
StaleTick == last.called /\ last.currentTime = last.lastVideoTime

\* C20: on a tick in which the video time has not advanced (currentTime
\* equals lastVideoTime) the detector is not invoked and the tracking pass
\* still runs with an empty detection list; and a pass with an empty list,
\* stale or not, increments every live track's missedFrames, evicts the
\* tracks at the tolerance, creates no track and leaves the counters alone.
C20_StaleTickAges ==
    /\ StaleTick =>
          /\ ~last.fresh
          /\ last.newDetections = << >>
          /\ lastVideoTime = last.lastVideoTime
    /\ (last.called /\ last.newDetections = << >>) =>
          /\ \A k \in Positions(last.tracks) :
                IF Before(k).missedFrames < MAX_MISS_FRAMES
                THEN /\ k \in SurvivingPos
                     /\ After(k) = [Before(k) EXCEPT !.missedFrames = @ + 1]
                ELSE Before(k).id \notin Ids(trackedFaceStates)
          /\ Len(trackedFaceStates) = Cardinality(SurvivingPos)
          /\ NewTracks = {}
          /\ enterCount = last.enterCount
          /\ exitCount = last.exitCount
          /\ nextTrackingId = last.nextTrackingId

\* A tick without a new video frame aged one track and evicted another that
\* stood at the tolerance.
C20_Witness ==
    /\ StaleTick
    /\ Len(last.tracks) = 2
    /\ Len(trackedFaceStates) = 1
    /\ \E k \in Positions(last.tracks) :
          /\ Before(k).missedFrames = MAX_MISS_FRAMES
          /\ Before(k).id \notin Ids(trackedFaceStates)
    /\ \E k \in Positions(last.tracks) :
          /\ Before(k).missedFrames < MAX_MISS_FRAMES
          /\ After(k).missedFrames = Before(k).missedFrames + 1

=============================================================================
